---- MODULE Spec2Model ----
(***************************************************************************)
(* Model of the two batch scripts of the repository:                       *)
(*   Pipeline A  AppendDamTimeHistoryParallel.py  (dam time history)       *)
(*   Pipeline B  SICA_parallel.py                 (irrigated extent)       *)
(*                                                                         *)
(* Conventions                                                             *)
(*  - polygons are named by their 0-based position in the shapefile;       *)
(*  - Python lists are sequences; Python positions are 0-based and are     *)
(*    shifted by one when a sequence is indexed;                           *)
(*  - a percentage is the exact fraction [n, d] (n/d percent): the float   *)
(*    rounding of the script is not modelled;                              *)
(*  - NDVI values are integers in hundredths (0.55 is 55, the code 80 is   *)
(*    8000);                                                               *)
(*  - strings that are sliced are sequences of one-character strings.      *)
(***************************************************************************)
EXTENDS Integers, Sequences, FiniteSets

VARIABLES
    \* ---- Pipeline A
    count,          \* len(ShapesList)
    part,           \* int(sys.argv[1])
    shapessubset,   \* the chunk of this invocation
    pcA,            \* position of the script
    k,              \* 1-based position of the for loop in shapessubset
    files,          \* polygon -> Output_dir/<ID>.txt, for the polygons opened so far
    files0,         \* polygon -> content found when the file was first opened
    from_date,      \* local of FindOutHowFullTheDamIs: <<>> or <<the date parsed>>
    WOFL,           \* local: the loaded time slices
    ix,             \* local: number of time slices already turned into percents
    DamCapacityPc,  \* local lists of lines 98-101
    DamCapacityCt,
    DryObserved,
    InvalidObservations,
    rows,           \* local: list(zip(DateList, ValidCapacityCt, ValidCapacityPc))
    w,              \* number of rows already written by the csv writer
    processed,      \* polygons FindOutHowFullTheDamIs was called for, in order
    reported,       \* polygons printed by the except clause of line 143
    raised,         \* polygon -> stage whose exception was raised for it
    \* ---- Pipeline B
    season,         \* user input of line 28
    tif,            \* sys.argv[1]
    pcB,            \* position of irrigated_extent
    year,           \* local: the season label
    directory,      \* local: the output directory
    segment_means,  \* local: the cells of the clump-mean raster
    e,              \* local: the classified cells
    shpOnDisk,      \* whether the polygon shapefile exists on disk
    polygonizeStatus, \* exit status returned by os.system
    gdf,            \* local: the polygon features
    finalShp,       \* whether gdf.to_file wrote the final shapefile, and its features
    stagesRun,      \* the stages entered so far, in order
    failedStage     \* the stages whose external tool failed

varsA == <<count, part, shapessubset, pcA, k, files, files0, from_date, WOFL, ix,
           DamCapacityPc, DamCapacityCt, DryObserved, InvalidObservations,
           rows, w, processed, reported, raised>>
varsB == <<season, tif, pcB, year, directory, segment_means, e, shpOnDisk,
           polygonizeStatus, gdf, finalShp, stagesRun, failedStage>>
vars == <<varsA, varsB>>

\* ------------------------------------------------------------------ bounds
MaxCount == 70      \* polygons of the shapefile, chunk selector alone
MaxPart == 33       \* chunk indices tried, chunk selector alone
MaxPolys == 3       \* polygons of the shapefile, whole invocation
MaxPartA == 2       \* chunk indices tried, whole invocation
MaxTime == 2        \* time stamps of the archive are 1..MaxTime
MaxPix == 20        \* pixels inside a polygon mask, percentage computation alone
MaxMean == 120      \* segment means are 0..MaxMean hundredths, classification alone
MaxCells == 1       \* cells of the clump-mean raster, whole run
MaxFeatures == 1    \* polygons the polygonizer produces, whole run

\* ------------------------------------------------------------------ helpers

Min(a, b) == IF a < b THEN a ELSE b
Max(a, b) == IF a > b THEN a ELSE b

\* math.ceil(a / b) for a >= 0, b > 0
Ceil(a, b) == IF a % b = 0 THEN a \div b ELSE (a \div b) + 1

\* ------------------------------------------------------------------ chunk selector
FanOut == 32

ShapesList(n) == [i \in 1..n |-> i - 1]

ChunkSizeNoPlusOne(n) == Ceil(n, FanOut)
ChunkSize(n) == Ceil(n, FanOut) + 1

\* Python's s[lo:hi]: negative bounds count from the end, both are clipped
PyBound(b, n) == IF b < 0 THEN Max(b + n, 0) ELSE Min(b, n)
PySliceInclusive(s, lo, hi) ==
    LET n == Len(s)
        l == PyBound(lo, n)
        h == PyBound(hi, n)
    IN  SubSeq(s, l + 1, Min(h + 1, n))
PySlice(s, lo, hi) ==
    LET n == Len(s)
        l == PyBound(lo, n)
        h == PyBound(hi, n)
    IN  SubSeq(s, l + 1, h)

Chunk(n, p) == PySlice(ShapesList(n), (p - 1) * ChunkSize(n), p * ChunkSize(n))

Range(s) == {s[i] : i \in 1..Len(s)}

\* ------------------------------------------------------------------ Pipeline A: data
\* pixel counts <<MaskedWet, MaskedDry, MaskedAll>> of a time slice inside the mask:
\* an empty mask; 0, 5 and 10 per cent of indeterminate pixels
PixelSamples == {<<0, 0, 0>>, <<6, 4, 10>>, <<12, 7, 20>>, <<5, 4, 10>>}

Slice(t, px) == [t |-> t, wet |-> px[1], dry |-> px[2], all |-> px[3]]

\* the elements of a set of integers in increasing order
SortedSeq(T) ==
    CHOOSE s \in [1..Cardinality(T) -> T] :
        /\ \A i, j \in 1..Cardinality(T) : i < j => s[i] < s[j]

\* what dc.load can return when it finds data: time slices in increasing order of
\* time
WOFLOver(T) ==
    {[i \in 1..Cardinality(T) |-> Slice(SortedSeq(T)[i], f[SortedSeq(T)[i]])] :
        f \in [T -> PixelSamples]}
AllWOFL == UNION {WOFLOver(T) : T \in (SUBSET (1..MaxTime)) \ {{}}}

\* a percentage as an exact fraction
Frac(n, d) == [n |-> n, d |-> d]
FracLt(p, c) == p.n < c * p.d
FracLe(p, c) == p.n <= c * p.d

\* lines 113-120
WaterPercentOf(s) ==
    IF s.all = 0 THEN Frac(0, 1) ELSE Frac(s.wet * 100, s.all)
DryPercentOf(s) ==
    IF s.all = 0 THEN Frac(0, 1) ELSE Frac(s.dry * 100, s.all)
UnknownPercentNoDry(s) ==
    IF s.all = 0 THEN Frac(100, 1) ELSE Frac((s.all - s.wet) * 100, s.all)
UnknownPercentOf(s) ==
    IF s.all = 0 THEN Frac(100, 1) ELSE Frac((s.all - (s.wet + s.dry)) * 100, s.all)

\* line 129: the 0-based positions of the time slices kept
Threshold == 10
ValidMaskLe(inv) == SelectSeq([i \in 1..Len(inv) |-> i - 1], LAMBDA i : FracLe(inv[i + 1], Threshold))
ValidMaskOf(inv) == SelectSeq([i \in 1..Len(inv) |-> i - 1], LAMBDA i : FracLt(inv[i + 1], Threshold))

\* lines 130-134: the time stamps of the valid slices as lines of text; the text
\* ends with a newline, so that split leaves one empty string at the end
DateListOf(wofl, mask) ==
    [i \in 1..Len(mask) |-> wofl[mask[i] + 1].t] \o <<"">>

\* line 135: zip stops at the shortest of its arguments
Zip3(a, b, c) ==
    [i \in 1..Min(Len(a), Min(Len(b), Len(c))) |-> <<a[i], b[i], c[i]>>]

\* lines 131-135
RowsUnfiltered(wofl, mask, ct, pc) == Zip3(DateListOf(wofl, mask), ct, pc)
RowsOf(wofl, mask, ct, pc) ==
    Zip3(DateListOf(wofl, mask),
         [i \in 1..Len(mask) |-> ct[mask[i] + 1]],
         [i \in 1..Len(mask) |-> pc[mask[i] + 1]])

\* the content of Output_dir/<ID>.txt before the script runs: no file, an empty
\* file, one line "date,value", or a line "date,count,percent" of an earlier run
File(exists, lines) == [exists |-> exists, lines |-> lines]
FileSamples ==
    {File(FALSE, <<>>), File(TRUE, <<>>)}
    \cup {File(TRUE, << <<t, Frac(50, 1)>> >>) : t \in {1, MaxTime}}
    \cup {File(TRUE, << <<1, 5, Frac(50, 1)>> >>)}

\* f with the value v at p, p added to its domain when new
Extend(f, p, v) == [q \in (DOMAIN f) \cup {p} |-> IF q = p THEN v ELSE f[q]]


\* ------------------------------------------------------------------ Pipeline A: steps
NoLocals ==
    /\ from_date = <<>> /\ WOFL = <<>> /\ ix = 0
    /\ DamCapacityPc = <<>> /\ DamCapacityCt = <<>>
    /\ DryObserved = <<>> /\ InvalidObservations = <<>>
    /\ rows = <<>> /\ w = 0

InitA(counts, parts) ==
    /\ count \in counts
    /\ part \in parts
    /\ shapessubset = <<>>
    /\ pcA = "start"
    /\ k = 1
    /\ files = <<>>
    /\ files0 = <<>>
    /\ NoLocals
    /\ processed = <<>>
    /\ reported = {}
    /\ raised = <<>>

IdleA == InitA({0}, {1})

\* the polygon FindOutHowFullTheDamIs is working on
Poly == shapessubset[k]

\* lines 53-57
SelectChunk ==
    /\ UNCHANGED varsB
    /\ pcA = "start"
    /\ shapessubset' = Chunk(count, part)
    /\ pcA' = "main"
    /\ UNCHANGED <<count, part, k, files, files0, from_date, WOFL, ix, DamCapacityPc,
                   DamCapacityCt, DryObserved, InvalidObservations, rows, w,
                   processed, reported, raised>>

\* lines 152-153: the next polygon of the chunk is handed to the function
CallNext ==
    /\ UNCHANGED varsB
    /\ pcA = "main"
    /\ k <= Len(shapessubset)
    /\ processed' = Append(processed, Poly)
    /\ pcA' = "checkpoint"
    /\ UNCHANGED <<count, part, shapessubset, k, files, files0, from_date, WOFL, ix,
                   DamCapacityPc, DamCapacityCt, DryObserved, InvalidObservations,
                   rows, w, reported, raised>>

\* line 152: the chunk is exhausted
LoopEnd ==
    /\ UNCHANGED varsB
    /\ pcA = "main"
    /\ k > Len(shapessubset)
    /\ pcA' = "done"
    /\ UNCHANGED <<count, part, shapessubset, k, files, files0, from_date, WOFL, ix,
                   DamCapacityPc, DamCapacityCt, DryObserved, InvalidObservations,
                   rows, w, processed, reported, raised>>

\* an exception that no handler catches ends the invocation
Uncaught(stage) ==
    /\ UNCHANGED varsB
    /\ raised' = Extend(raised, Poly, stage)
    /\ pcA' = "crashed"
    /\ UNCHANGED <<count, part, shapessubset, k, from_date, WOFL, ix,
                   DamCapacityPc, DamCapacityCt, DryObserved, InvalidObservations,
                   rows, w, processed, reported>>

\* lines 142-143: the handler prints the polygon, the function returns
CaughtStops(stage) ==
    /\ UNCHANGED varsB
    /\ raised' = Extend(raised, Poly, stage)
    /\ reported' = reported \cup {Poly}
    /\ pcA' = "crashed"
    /\ UNCHANGED <<count, part, shapessubset, k, from_date, WOFL, ix,
                   DamCapacityPc, DamCapacityCt, DryObserved, InvalidObservations,
                   rows, w, processed>>
Caught(stage) ==
    /\ UNCHANGED varsB
    /\ raised' = Extend(raised, Poly, stage)
    /\ reported' = reported \cup {Poly}
    /\ pcA' = "returned"
    /\ UNCHANGED <<count, part, shapessubset, k, from_date, WOFL, ix,
                   DamCapacityPc, DamCapacityCt, DryObserved, InvalidObservations,
                   rows, w, processed>>

\* lines 28-32 and 85: the last line of the file, split at the commas, must have
\* exactly two fields
LastLineOk(f) == f.exists /\ Len(f.lines) > 0 /\ Len(f.lines[Len(f.lines)]) = 2

\* lines 77-87: the file of the polygon is read for the first time
Checkpoint ==
    /\ UNCHANGED varsB
    /\ pcA = "checkpoint"
    /\ \E f \in FileSamples :
        /\ files' = Extend(files, Poly, f)
        /\ files0' = Extend(files0, Poly, f)
        /\ IF LastLineOk(f)
           THEN /\ from_date' = <<f.lines[Len(f.lines)][1]>>
                /\ pcA' = "query"
                /\ UNCHANGED <<count, part, shapessubset, k, WOFL, ix, DamCapacityPc,
                               DamCapacityCt, DryObserved, InvalidObservations, rows, w,
                               processed, reported, raised>>
           ELSE Uncaught("checkpoint")

\* lines 89-96: the whole archive is loaded for the polygon; from_date is not used
Query ==
    /\ UNCHANGED varsB
    /\ pcA = "query"
    /\ \E wf \in AllWOFL :
        /\ WOFL' = wf
        /\ pcA' = "percent"
    /\ UNCHANGED <<count, part, shapessubset, k, files, files0, from_date, ix,
                   DamCapacityPc, DamCapacityCt, DryObserved, InvalidObservations,
                   rows, w, processed, reported, raised>>

\* lines 77, 89-96: the data cube cannot be reached, the load fails, or nothing is
\* found for the polygon and line 92 finds no geobox
QueryFail ==
    /\ pcA = "query"
    /\ Uncaught("query")
    /\ UNCHANGED <<files, files0>>

\* lines 102-125: one pass of the loop over the time slices
PercentStep ==
    /\ UNCHANGED varsB
    /\ pcA = "percent"
    /\ ix < Len(WOFL)
    /\ LET s == WOFL[ix + 1] IN
        /\ DamCapacityPc' = Append(DamCapacityPc, WaterPercentOf(s))
        /\ InvalidObservations' = Append(InvalidObservations, UnknownPercentOf(s))
        /\ DryObserved' = Append(DryObserved, DryPercentOf(s))
        /\ DamCapacityCt' = Append(DamCapacityCt, s.wet)
    /\ ix' = ix + 1
    /\ pcA' = IF ix + 1 = Len(WOFL) THEN "filter" ELSE "percent"
    /\ UNCHANGED <<count, part, shapessubset, k, files, files0, from_date, WOFL,
                   rows, w, processed, reported, raised>>

\* lines 104-111: a library call of the loop raises
PercentFail ==
    /\ pcA = "percent"
    /\ Uncaught("percent")
    /\ UNCHANGED <<files, files0>>

\* lines 129-135
Filter ==
    /\ UNCHANGED varsB
    /\ pcA = "filter"
    /\ rows' = RowsOf(WOFL, ValidMaskOf(InvalidObservations), DamCapacityCt, DamCapacityPc)
    /\ pcA' = "write"
    /\ UNCHANGED <<count, part, shapessubset, k, files, files0, from_date, WOFL, ix,
                   DamCapacityPc, DamCapacityCt, DryObserved, InvalidObservations,
                   w, processed, reported, raised>>

\* lines 129-134 raise inside the try
FilterFail ==
    /\ pcA = "filter"
    /\ Caught("filter")
    /\ UNCHANGED <<files, files0>>

\* lines 137-141: one row is appended to the file (DateList always holds the empty
\* string that follows the last newline, so the test of line 137 always passes)
WriteRow ==
    /\ UNCHANGED varsB
    /\ pcA = "write"
    /\ w < Len(rows)
    /\ files' = [files EXCEPT ![Poly].lines = Append(@, rows[w + 1])]
    /\ w' = w + 1
    /\ UNCHANGED <<count, part, shapessubset, pcA, k, files0, from_date, WOFL, ix,
                   DamCapacityPc, DamCapacityCt, DryObserved, InvalidObservations,
                   rows, processed, reported, raised>>

\* line 141 was the last one: the function returns
WriteEnd ==
    /\ UNCHANGED varsB
    /\ pcA = "write"
    /\ w = Len(rows)
    /\ pcA' = "returned"
    /\ UNCHANGED <<count, part, shapessubset, k, files, files0, from_date, WOFL, ix,
                   DamCapacityPc, DamCapacityCt, DryObserved, InvalidObservations,
                   rows, w, processed, reported, raised>>

\* lines 138-141 raise inside the try: the open, or the write of a row
WriteFail ==
    /\ pcA = "write"
    /\ Caught("write")
    /\ UNCHANGED <<files, files0>>

\* line 152: back in the loop, the locals of the function are gone
Return ==
    /\ UNCHANGED varsB
    /\ pcA = "returned"
    /\ k' = k + 1
    /\ pcA' = "main"
    /\ from_date' = <<>> /\ WOFL' = <<>> /\ ix' = 0
    /\ DamCapacityPc' = <<>> /\ DamCapacityCt' = <<>>
    /\ DryObserved' = <<>> /\ InvalidObservations' = <<>>
    /\ rows' = <<>> /\ w' = 0
    /\ UNCHANGED <<count, part, shapessubset, files, files0, processed, reported, raised>>

NextA ==
    \/ SelectChunk \/ CallNext \/ LoopEnd
    \/ Checkpoint
    \/ Query \/ QueryFail
    \/ PercentStep \/ PercentFail
    \/ Filter \/ FilterFail
    \/ WriteRow \/ WriteEnd \/ WriteFail
    \/ Return

\* ------------------------------------------------------------------ Pipeline B: data
Str_Summer == <<"S", "u", "m", "m", "e", "r">>
Str_Winter == <<"W", "i", "n", "t", "e", "r">>
\* lines 25 and 31, never sliced: one element each
results == <<"/g/data/r78/cb3058/dea-notebooks/ICE_project/results/SA_MDB/">>
AOI == <<"SA_MDB">>

DigitChars == <<"0", "1", "2", "3", "4", "5", "6", "7", "8", "9">>
DigitVal(c) == CHOOSE d \in 0..9 : DigitChars[d + 1] = c

\* int(s) for a string of decimal digits
RECURSIVE StrToInt(_)
StrToInt(s) ==
    IF Len(s) = 0 THEN 0
    ELSE 10 * StrToInt(SubSeq(s, 1, Len(s) - 1)) + DigitVal(s[Len(s)])

\* str(n) for n >= 0
RECURSIVE IntToStr(_)
IntToStr(n) ==
    IF n < 10 THEN <<DigitChars[n + 1]>>
    ELSE IntToStr(n \div 10) \o <<DigitChars[(n % 10) + 1]>>

\* lines 43-50: the season label
YearLabelShort(seas, name) ==
    IF seas = Str_Summer
    THEN LET y == PySlice(name, 13, 17)
             nextyear == PySlice(IntToStr(StrToInt(y) + 1), 2, Len(IntToStr(StrToInt(y) + 1)))
         IN  seas \o PySlice(y, 2, Len(y)) \o <<"_">> \o nextyear
    ELSE seas \o PySlice(name, 7, 11)
YearLabel(seas, name) ==
    IF seas = Str_Summer
    THEN LET y == PySlice(name, 13, 17)
             nextyear == PySlice(IntToStr(StrToInt(y) + 1), 2, Len(IntToStr(StrToInt(y) + 1)))
         IN  seas \o (y \o <<"_">> \o nextyear)
    ELSE seas \o PySlice(name, 7, 11)

\* line 53
DirectoryOf(label) == results \o AOI \o <<"_">> \o label

\* raster names: 7 characters, a year, 2 characters, a year, the extension
YearSamples ==
    {<<"2", "0", "1", "0">>, <<"1", "9", "9", "9">>, <<"2", "0", "9", "9">>,
     <<"0", "0", "9", "9">>, <<"9", "9", "9", "9">>}
WinterYearSamples == {<<"2", "0", "1", "0">>, <<"1", "9", "9", "8">>}
TifName(y1, y2) ==
    <<"n", "d", "v", "i", "m", "x", "_">> \o y1 \o <<"_", "_">> \o y2
        \o <<".", "t", "i", "f">>
TifSamples == {TifName(y1, y2) : y1 \in WinterYearSamples, y2 \in YearSamples}

\* lines 84-88, on one cell; values in hundredths
T80 == 80
T70 == 70
T60 == 60
T55 == 55
Code80 == 8000
Code70 == 7000
Code60 == 6000
Code55 == 5500
Cell(nodata, v) == [nodata |-> nodata, v |-> v]
NoData == Cell(TRUE, 0)

ReclassifyExclusive(v) ==
    LET a == IF v > T80 THEN Code80 ELSE v
        b == IF a > T70 /\ a < T80 THEN Code70 ELSE a
        c == IF b > T60 /\ b < T70 THEN Code60 ELSE b
        d == IF c > T55 /\ c < T60 THEN Code55 ELSE c
    IN  IF d >= Code55 THEN Cell(FALSE, d) ELSE NoData
Reclassify(v) ==
    LET a == IF v >= T80 THEN Code80 ELSE v
        b == IF a >= T70 /\ a < T80 THEN Code70 ELSE a
        c == IF b >= T60 /\ b < T70 THEN Code60 ELSE b
        d == IF c >= T55 /\ c < T60 THEN Code55 ELSE c
    IN  IF d >= Code55 THEN Cell(FALSE, d) ELSE NoData

\* segment means of the whole run: the values of the scenarios and the breakpoints
MeanSamples == {50, 55, 56, 62, 75, 85}
Rasters(values) == UNION {[1..n -> values] : n \in 1..MaxCells}

\* lines 107-112
MaxArea == 50000000
MinArea == 100000
KeptClass == 60
Feature(dn, area) == [DN |-> dn, area |-> area]
FilterPolygons(g) ==
    SelectSeq(g, LAMBDA f : f.area <= MaxArea /\ f.DN = KeptClass /\ f.area > MinArea)

FeatureSamples ==
    {Feature(60, 150000), Feature(60, 90000), Feature(70, 150000), Feature(60, 60000000)}
FeatureSets == UNION {[1..n -> FeatureSamples] : n \in 0..MaxFeatures}

Shp(written, features) == [written |-> written, features |-> features]

\* ------------------------------------------------------------------ Pipeline B: steps
InitB(names, pc0, rasters, done) ==
    /\ season \in {Str_Summer, Str_Winter}
    /\ tif \in names
    /\ pcB = pc0
    /\ segment_means \in rasters
    /\ e = <<>>
    /\ shpOnDisk \in BOOLEAN
    /\ polygonizeStatus = 0
    /\ gdf = <<>>
    /\ finalShp = Shp(FALSE, <<>>)
    /\ stagesRun = done
    /\ failedStage = {}

IdleB ==
    /\ season = Str_Summer
    /\ tif = TifName(<<"2", "0", "1", "0">>, <<"2", "0", "1", "0">>)
    /\ pcB = "idle"
    /\ year = <<>>
    /\ directory = <<>>
    /\ segment_means = <<>>
    /\ e = <<>>
    /\ shpOnDisk = FALSE
    /\ polygonizeStatus = 0
    /\ gdf = <<>>
    /\ finalShp = Shp(FALSE, <<>>)
    /\ stagesRun = <<>>
    /\ failedStage = {}

\* a stage is entered and succeeds
Enter(stage, next) ==
    /\ UNCHANGED varsA
    /\ pcB = stage
    /\ stagesRun' = Append(stagesRun, stage)
    /\ pcB' = next
    /\ UNCHANGED <<season, tif>>

\* a stage is entered and its call raises: nothing catches it
Abort(stage) ==
    /\ UNCHANGED varsA
    /\ pcB = stage
    /\ stagesRun' = Append(stagesRun, stage)
    /\ failedStage' = failedStage \cup {stage}
    /\ pcB' = "aborted"
    /\ UNCHANGED <<season, tif, year, directory, segment_means, e, shpOnDisk,
                   polygonizeStatus, gdf, finalShp>>

\* lines 43-57
Label ==
    /\ Enter("label", "conversion")
    /\ year' = YearLabel(season, tif)
    /\ directory' = DirectoryOf(YearLabel(season, tif))
    /\ UNCHANGED <<failedStage, segment_means, e, shpOnDisk, polygonizeStatus, gdf, finalShp>>

\* line 55: os.mkdir raises
MkdirFail ==
    /\ pcB = "label"
    /\ Abort("label")

\* line 67
Translate ==
    /\ Enter("conversion", "segmentation")
    /\ UNCHANGED <<failedStage, year, directory, segment_means, e, shpOnDisk, polygonizeStatus,
                   gdf, finalShp>>
\* line 67: gdal.Translate is taken to raise when the conversion fails, as it does
\* with GDAL's exceptions enabled
TranslateFail ==
    /\ pcB = "conversion"
    /\ Abort("conversion")

\* lines 71-73
Segmentation ==
    /\ Enter("segmentation", "means")
    /\ UNCHANGED <<failedStage, year, directory, segment_means, e, shpOnDisk, polygonizeStatus,
                   gdf, finalShp>>
SegmentationFail ==
    /\ pcB = "segmentation"
    /\ Abort("segmentation")

\* line 75: the clump means are read
OpenMeans ==
    /\ Enter("means", "classification")
    /\ \E r \in Rasters(MeanSamples) : segment_means' = r
    /\ UNCHANGED <<failedStage, year, directory, e, shpOnDisk, polygonizeStatus, gdf, finalShp>>
OpenMeansFail ==
    /\ pcB = "means"
    /\ Abort("means")

\* lines 84-88: every cell is classified; nothing here calls an external tool
Classify ==
    /\ Enter("classification", "export")
    /\ e' = [i \in 1..Len(segment_means) |-> Reclassify(segment_means[i])]
    /\ UNCHANGED <<failedStage, year, directory, segment_means, shpOnDisk, polygonizeStatus, gdf,
                   finalShp>>

\* lines 91-95
Export ==
    /\ Enter("export", "polygonization")
    /\ UNCHANGED <<failedStage, year, directory, segment_means, e, shpOnDisk, polygonizeStatus,
                   gdf, finalShp>>
ExportFail ==
    /\ pcB = "export"
    /\ Abort("export")

\* line 102: os.system returns the exit status of the command and never raises
Polygonize ==
    /\ UNCHANGED varsA
    /\ pcB = "polygonization"
    /\ stagesRun' = Append(stagesRun, "polygonization")
    /\ \E status \in {0, 1} :
        /\ polygonizeStatus' = status
        /\ shpOnDisk' = IF status = 0 THEN TRUE ELSE shpOnDisk
        /\ failedStage' = IF status = 0 THEN failedStage
                          ELSE failedStage \cup {"polygonization"}
    /\ pcB' = "filtering"
    /\ UNCHANGED <<season, tif, year, directory, segment_means, e, gdf, finalShp>>

\* lines 106-112: the shapefile is read, when there is one, and filtered
FilterShp ==
    /\ shpOnDisk
    /\ Enter("filtering", "shapefile")
    /\ \E g \in FeatureSets : gdf' = FilterPolygons(g)
    /\ UNCHANGED <<failedStage, year, directory, segment_means, e, shpOnDisk, polygonizeStatus,
                   finalShp>>
\* line 106: there is no shapefile to read, or it cannot be read
FilterShpFail ==
    /\ pcB = "filtering"
    /\ Abort("filtering")

\* line 115
ToFile ==
    /\ Enter("shapefile", "done")
    /\ finalShp' = Shp(TRUE, gdf)
    /\ UNCHANGED <<failedStage, year, directory, segment_means, e, shpOnDisk, polygonizeStatus, gdf>>
ToFileFail ==
    /\ pcB = "shapefile"
    /\ Abort("shapefile")

NextB ==
    \/ Label \/ MkdirFail
    \/ Translate \/ TranslateFail
    \/ Segmentation \/ SegmentationFail
    \/ OpenMeans \/ OpenMeansFail
    \/ Classify
    \/ Export \/ ExportFail
    \/ Polygonize
    \/ FilterShp \/ FilterShpFail
    \/ ToFile \/ ToFileFail

\* ------------------------------------------------------------------ specifications
\* one invocation of Pipeline A on a small shapefile
InitSpecA == InitA(0..MaxPolys, 1..MaxPartA) /\ IdleB
SpecA == InitSpecA /\ [][NextA]_vars

\* the chunk selector alone, for every polygon count and chunk index
InitChunk == InitA(0..MaxCount, 1..MaxPart) /\ IdleB
NextChunk == SelectChunk
SpecChunk == InitChunk /\ [][NextChunk]_vars

\* one run of Pipeline B
InitSpecB ==
    /\ IdleA
    /\ InitB(TifSamples, "label", {<<>>}, <<>>)
    /\ year = <<>>
    /\ directory = <<>>
SpecB == InitSpecB /\ [][NextB]_vars

\* the classification alone, for every segment mean
InitThreshold ==
    /\ IdleA
    /\ InitB(TifSamples, "classification", {<<v>> : v \in 0..MaxMean},
             <<"label", "conversion", "segmentation", "means">>)
    /\ year = YearLabel(season, tif)
    /\ directory = DirectoryOf(YearLabel(season, tif))
NextThreshold == Classify
SpecThreshold == InitThreshold /\ [][NextThreshold]_vars

\* one polygon with one time slice, for every count of wet, dry and masked pixels:
\* the state after line 96
PixelCounts ==
    {px \in (0..MaxPix) \X (0..MaxPix) \X (0..MaxPix) : px[1] + px[2] <= px[3]}
InitSlice ==
    /\ count = 1
    /\ part = 1
    /\ shapessubset = <<0>>
    /\ pcA = "percent"
    /\ k = 1
    /\ files = [q \in {0} |-> File(TRUE, << <<1, Frac(50, 1)>> >>)]
    /\ files0 = files
    /\ from_date = <<1>>
    /\ WOFL \in {<<Slice(2, px)>> : px \in PixelCounts}
    /\ ix = 0
    /\ DamCapacityPc = <<>> /\ DamCapacityCt = <<>>
    /\ DryObserved = <<>> /\ InvalidObservations = <<>>
    /\ rows = <<>> /\ w = 0
    /\ processed = <<0>>
    /\ reported = {}
    /\ raised = <<>>
    /\ IdleB
NextSlice ==
    \/ PercentStep \/ PercentFail
    \/ Filter \/ FilterFail
    \/ WriteRow \/ WriteEnd \/ WriteFail
SpecSlice == InitSlice /\ [][NextSlice]_vars

\* ------------------------------------------------------------------ claims
\* the rows the current processing has appended to the file of its polygon
Appended(p) ==
    SubSeq(files[p].lines, Len(files0[p].lines) + 1, Len(files[p].lines))
IsPrefix(a, b) == Len(a) <= Len(b) /\ SubSeq(b, 1, Len(a)) = a

C1_S == CHOOSE sz \in 1..(count + 2) : 32 * (sz - 2) < count /\ count <= 32 * (sz - 1)
C1_Positions(i) == {q \in 0..(count - 1) : (i - 1) * C1_S <= q /\ q < i * C1_S}
C1_Slice(i) == [j \in 1..Cardinality(C1_Positions(i)) |-> (i - 1) * C1_S + j - 1]
\* C1: for every polygon count, with S = ceil(count/32)+1, the slice of index i is
\* the positions [(i-1)*S, i*S) clipped to [0, count); the slices of two different
\* indices in 1..32 are disjoint and every position 0..count-1 lies in the slice of
\* exactly one index in 1..32; the chunk the script selects is the slice of its index.
\* The part about pairs of indices speaks of the polygon count alone: it is
\* evaluated in the states of one chunk index, which exist for every polygon count.
C1_ChunksPartition ==
    /\ Chunk(count, part) = C1_Slice(part)
    /\ pcA = "main" => shapessubset = C1_Slice(part)
    /\ part = 1 =>
        /\ \A i, j \in 1..32 :
            i # j => Range(Chunk(count, i)) \cap Range(Chunk(count, j)) = {}
        /\ \A q \in 0..(count - 1) :
            Cardinality({i \in 1..32 : q \in Range(Chunk(count, i))}) = 1
C1_Witness ==
    /\ pcA = "main" /\ count = 70 /\ part = 18
    /\ shapessubset = <<68, 69>>

\* C2 as stated: with 3 polygons, the invocation with index 1 processes the first
\* polygon and no other.
C2_OnlyFirstPolygon ==
    (count = 3 /\ part = 1 /\ pcA = "done") => processed = <<0>>
\* C2 amended: with 3 polygons the chunk size is ceil(3/32)+1 = 2, and the
\* invocation with index 1 processes the positions [0,2): the first two polygons.
C2_FirstTwoPolygons ==
    /\ (count = 3 /\ part = 1 /\ pcA # "start") => shapessubset = <<0, 1>>
    /\ (count = 3 /\ part = 1 /\ pcA = "done") => processed = <<0, 1>>
C2_Witness ==
    count = 3 /\ part = 1 /\ pcA = "done" /\ processed = <<0, 1>>

C3_Sum(a, b, c) == a.n * b.d * c.d + b.n * a.d * c.d + c.n * a.d * b.d
\* C3: for every time slice turned into percentages, when the total is 0 the result
\* is wet 0, dry 0, indeterminate 100 and the script goes on; when the total is
\* positive the three percentages add up to 100.
C3_Percentages ==
    \A i \in 1..ix :
        LET wp == DamCapacityPc[i]
            dp == DryObserved[i]
            up == InvalidObservations[i]
        IN  /\ wp.d > 0 /\ dp.d > 0 /\ up.d > 0
            /\ WOFL[i].all = 0 =>
                /\ wp.n = 0 /\ dp.n = 0 /\ up.n = 100 * up.d
                /\ pcA # "crashed"
            /\ WOFL[i].all > 0 => C3_Sum(wp, dp, up) = 100 * wp.d * dp.d * up.d
C3_Witness ==
    /\ pcA = "filter" /\ ix = 1
    /\ WOFL[1].wet = 5 /\ WOFL[1].dry = 3 /\ WOFL[1].all = 10
    /\ InvalidObservations[1].n = 20 * InvalidObservations[1].d

C4_Clear(s) == s.all > 0 /\ 100 * (s.all - (s.wet + s.dry)) < 10 * s.all
C4_HasRow(s) == \E j \in 1..Len(Appended(Poly)) : Appended(Poly)[j][1] = s.t
C5_Expected(v) ==
    IF v >= 80 THEN [nodata |-> FALSE, v |-> 8000]
    ELSE IF v >= 70 THEN [nodata |-> FALSE, v |-> 7000]
    ELSE IF v >= 60 THEN [nodata |-> FALSE, v |-> 6000]
    ELSE IF v >= 55 THEN [nodata |-> FALSE, v |-> 5500]
    ELSE [nodata |-> TRUE, v |-> 0]
\* C5: every segment mean v maps to exactly one output: v >= 0.80 gives 80,
\* 0.70 <= v < 0.80 gives 70, 0.60 <= v < 0.70 gives 60, 0.55 <= v < 0.60 gives 55
\* (so exactly 0.55 gives 55) and v < 0.55 gives no data.
C5_ThresholdMapping ==
    (pcB = "export") =>
        /\ Len(e) = Len(segment_means)
        /\ \A i \in 1..Len(e) : e[i] = C5_Expected(segment_means[i])
C5_Witness ==
    pcB = "export" /\ segment_means = <<55>> /\ e = <<[nodata |-> FALSE, v |-> 5500]>>

C6_Labelled(label) ==
    (/\ season = <<"S", "u", "m", "m", "e", "r">>
     /\ SubSeq(tif, 14, 17) = <<"2", "0", "1", "0">>
     /\ "label" \in Range(stagesRun) /\ "label" \notin failedStage)
    => (/\ year = label
        /\ directory = results \o AOI \o <<"_">> \o label)
\* C6 as stated: with season Summer and the characters 13..16 of the raster name
\* being 2010, the label of the output directory is Summer10_11.
C6_LabelSummer10_11 ==
    C6_Labelled(<<"S", "u", "m", "m", "e", "r", "1", "0", "_", "1", "1">>)
\* C6 amended: the label keeps the four digits of the year: Summer2010_11.
C6_LabelSummer2010_11 ==
    C6_Labelled(<<"S", "u", "m", "m", "e", "r", "2", "0", "1", "0", "_", "1", "1">>)
C6_Witness ==
    /\ season = <<"S", "u", "m", "m", "e", "r">>
    /\ SubSeq(tif, 14, 17) = <<"2", "0", "1", "0">>
    /\ pcB = "conversion"
    /\ year = <<"S", "u", "m", "m", "e", "r", "2", "0", "1", "0", "_", "1", "1">>

C8_Order ==
    <<"label", "conversion", "segmentation", "means", "classification", "export",
      "polygonization", "filtering", "shapefile">>
\* C8: the stages of Pipeline B run in their order, and the failure of any external
\* tool, the polygonizer included, ends the run: no later stage runs and the final
\* shapefile is not written.
C8_AllOrAbort ==
    /\ IsPrefix(stagesRun, C8_Order)
    /\ \A st \in failedStage :
        /\ pcB = "aborted"
        /\ stagesRun[Len(stagesRun)] = st
        /\ ~finalShp.written

C9_Retained == SelectSeq(WOFL, LAMBDA s : s.all > 0 /\ 100 * (s.all - (s.wet + s.dry)) < 10 * s.all)
C9_RowOf(row, s) ==
    /\ Len(row) = 3
    /\ row[1] = s.t
    /\ row[2] = s.wet
    /\ row[3].d > 0 /\ row[3].n * s.all = s.wet * 100 * row[3].d
\* C9: the file of a polygon only grows at its end, and the rows one processing
\* appends are the retained time slices in the order of the query, each with the
\* time stamp, the wet count and the wet percentage of its own slice: at any moment
\* the rows appended are the first ones of that list, and a processing that raises
\* nothing has appended them all.
C9_AppendOnlyInOrder ==
    /\ \A p \in DOMAIN files : IsPrefix(files0[p].lines, files[p].lines)
    /\ (pcA \in {"filter", "write", "returned"}) =>
        /\ Len(Appended(Poly)) <= Len(C9_Retained)
        /\ \A j \in 1..Len(Appended(Poly)) : C9_RowOf(Appended(Poly)[j], C9_Retained[j])
        /\ (pcA = "returned" /\ Poly \notin DOMAIN raised) =>
            Len(Appended(Poly)) = Len(C9_Retained)
C9_Witness ==
    /\ pcA = "returned" /\ Poly \notin DOMAIN raised
    /\ Len(WOFL) = 2
    /\ WOFL[1].wet = 5 /\ WOFL[1].all = 10 /\ WOFL[1].dry = 4
    /\ WOFL[2].wet = 12 /\ WOFL[2].all = 20
    /\ Len(Appended(Poly)) = 1
    /\ Appended(Poly)[1][1] = 2 /\ Appended(Poly)[1][2] = 12

\* C10: every row a processing appends has a time stamp strictly later than the
\* checkpoint read from the last line of the file when the processing began.
C10_OnlyAfterCheckpoint ==
    (pcA \in {"write", "returned"}) =>
        \A j \in 1..Len(Appended(Poly)) : Appended(Poly)[j][1] > from_date[1]

====
